---- MODULE Spec2Model ----
(***************************************************************************)
(* The thread lifecycle and message relay engine of modmailbot              *)
(* (src/src/data/Thread.js).  One thread row, its transcript               *)
(* (thread_messages), the relay channel and the user's DM channel are the  *)
(* shared state; every call of a Thread method is a process that advances  *)
(* from one await to the next, so that calls interleave exactly where the  *)
(* JavaScript event loop lets them.                                        *)
(***************************************************************************)
EXTENDS Integers, Sequences, FiniteSets, Bags, TLC

\* ------------------------------------------------------------------ bounds
\* Number of Thread method calls made in one behaviour.
MaxCalls == 2
\* Number of times the wall clock advances in one behaviour.
MaxTicks == 1
\* Number of close and cancel calls on a thread that starts with watchers,
\* overrides and a scheduled close.
MaxCloses == 2
\* Number of inbound messages on a thread that starts with watchers.
MaxInbound == 1
\* Number of close calls followed to their return under fair scheduling.
MaxClosers == 1

\* ------------------------------------------------------- program constants
\* closedAt.diff(now) <= 30000
GuardMs == 30000

\* One clock step: two thirds of the guard window, so that a close scheduled
\* one step ahead is inside the window and one scheduled two steps ahead is not.
TickMs == (2 * GuardMs) \div 3

\* A nullable column or property: Null, or Some(v) with Val(Some(v)) = v.
Null == <<>>
Some(v) == <<v>>
Val(x) == x[1]

CallIds == 1..MaxCalls

\* THREAD_STATUS of ./constants
OPEN == "Open"
CLOSED == "Closed"
SUSPENDED == "Suspended"

\* THREAD_MESSAGE_TYPE of ./constants
SYSTEM == "System"
TO_USER == "ToUser"
FROM_USER == "FromUser"
CHAT == "Chat"

\* Operators (staff members) and the bot's own user, as Eris users.
\* A string that is split or joined is the sequence of its parts, a separator
\* ("#", ", ") being one part; bob's username has a "#" in it.
ann == [id |-> "m1", username |-> <<"ann">>, discriminator |-> <<"0001">>]
bob == [id |-> "m2", username |-> <<"b", "#", "ob">>, discriminator |-> <<"0002">>]
Users == {ann, bob}

\* The moderator who replies: the identity only lands in the row's user_id.
Moderators == {ann}

\* bot.user
botUser == [id |-> "bot", username |-> <<"modmail">>, discriminator |-> <<"0000">>]

UserIds == {u.id : u \in Users}

RoleIds == {"r1", "r2"}

\* ------------------------------------------------------------- conversions
\* moment.utc().format("YYYY-MM-DD HH:mm:ss"): a time to the second.
FormatSec(ms) == ms \div 1000

\* moment(str): the time of a "YYYY-MM-DD HH:mm:ss" string, in milliseconds
\* (the process is taken to run in UTC, as the strings are written in UTC).
ParseMs(sec) == sec * 1000

\* `${user.username}#${user.discriminator}`: a string as its sequence of parts.
UserTag(user) == user.username \o <<"#">> \o user.discriminator

\* str.split(sep): the pieces between the sep parts.
RECURSIVE Split(_, _)
Split(str, sep) ==
  IF \A i \in 1..Len(str) : str[i] # sep
  THEN <<str>>
  ELSE LET i == CHOOSE k \in 1..Len(str) :
                  str[k] = sep /\ \A j \in 1..(k - 1) : str[j] # sep
       IN <<SubSeq(str, 1, i - 1)>> \o Split(SubSeq(str, i + 1, Len(str)), sep)

\* pieces.join(sep)
RECURSIVE Join(_, _)
Join(pieces, sep) ==
  IF pieces = <<>> THEN <<>>
  ELSE IF Len(pieces) = 1 THEN pieces[1]
  ELSE pieces[1] \o (IF sep = "" THEN <<>> ELSE <<sep>>) \o Join(Tail(pieces), sep)

\* An id as a string.
Str(id) == <<id>>

\* Thread.close, author absent: the author rebuilt from the row read back.
\*   username: name.split("#").slice(0, -1).join("#")
\*   discriminator: name.split("#").slice(-1)[0]
authorFromRow(row) ==
  LET pieces == Split(Val(row.scheduled_close_name), "#")
  IN [id |-> row.scheduled_close_id,
      username |-> Join(SubSeq(pieces, 1, Len(pieces) - 1), "#"),
      discriminator |-> pieces[Len(pieces)]]

\* An Eris user passed as author: its id is a string.
authorOf(user) ==
  [id |-> Some(user.id), username |-> user.username,
   discriminator |-> user.discriminator]

VARIABLES
  thread,        \* the row of table threads
  transcript,    \* the rows of table thread_messages of this thread, by id
  channelExists, \* the relay channel exists on the platform
  channelMsgs,   \* ids of the messages delivered to the relay channel
  dms,           \* ids of the messages in the user's DM channel
  clock,         \* wall clock, in milliseconds
  calls,         \* the calls of Thread methods, in the order they were made
  autoClose      \* the closes started, and not awaited, by postToThreadChannel

vars == <<thread, transcript, channelExists, channelMsgs, dms, clock, calls, autoClose>>

\* ------------------------------------------------------------ thread row

\* Mutant: the update forgets one of the three columns.
cancelScheduledCloseUpdate_KeepName(row) ==
  [row EXCEPT !.scheduled_close_at = Null, !.scheduled_close_id = Null]

\* Thread.cancelScheduledClose: the update of the row.
cancelScheduledCloseUpdate(row) ==
  [row EXCEPT !.scheduled_close_at = Null,
              !.scheduled_close_id = Null,
              !.scheduled_close_name = Null]

\* Mutant: the update does not write the name.
scheduleCloseUpdate_NoName(row, time, user) ==
  [row EXCEPT !.scheduled_close_at = Some(time),
              !.scheduled_close_id = Some(user.id)]

\* Thread.scheduleClose: the update of the row.
scheduleCloseUpdate(row, time, user) ==
  [row EXCEPT !.scheduled_close_at = Some(time),
              !.scheduled_close_id = Some(user.id),
              !.scheduled_close_name = Some(UserTag(user))]

\* Thread.suspend: the update of the row.
suspendUpdate(row) == [row EXCEPT !.status = SUSPENDED]

\* Thread.unsuspend: the update of the row.
unsuspendUpdate(row) == [row EXCEPT !.status = OPEN]

\* Mutant: the update leaves the watchers and the overrides in the row.
closeUpdate_KeepWatchers(row, author, at) ==
  [row EXCEPT !.status = "Closed",
              !.scheduled_close_at = Some(at),
              !.scheduled_close_id = author.id,
              !.scheduled_close_name = Some(author.username \o <<"#">>
                                              \o author.discriminator)]

\* Thread.close: the update of the row ("Update DB status").  at is the
\* formatted time computed when the update was built; author.id is null when
\* the author was rebuilt from a row without scheduled_close_id.
closeUpdate(row, author, at) ==
  [row EXCEPT !.status = CLOSED,
              !.scheduled_close_at = Some(at),
              !.scheduled_close_id = author.id,
              !.scheduled_close_name = Some(UserTag(author)),
              !.alert_users = Null,
              !.staff_role_overrides = Null]

\* The properties a Thread object is constructed with: a copy of the row.
ThreadObject(row) == row

\* ------------------------------------------------------------ transcript

\* Thread.addThreadMessageToDB: the row inserted; id is the autoincrement key.
addThreadMessageToDB(rows, data, now) ==
  Append(rows,
    [id |-> (IF rows = <<>> THEN 1 ELSE rows[Len(rows)].id + 1),
     created_at |-> FormatSec(now),
     message_type |-> data.message_type,
     user_id |-> data.user_id,
     body |-> data.body,
     is_anonymous |-> data.is_anonymous,
     dm_message_id |-> data.dm_message_id,
     thread_message_id |-> data.thread_message_id])

\* The order of getThreadMessages: created_at ascending, then id ascending.
RowBefore(a, b) ==
  \/ a.created_at < b.created_at
  \/ a.created_at = b.created_at /\ a.id < b.id

\* Thread.getThreadMessages: the rows, sorted by insertion.
RECURSIVE getThreadMessages(_)
getThreadMessages(rows) ==
  IF rows = <<>> THEN <<>>
  ELSE LET sorted == getThreadMessages(Tail(rows))
           row == Head(rows)
           k == Cardinality({i \in 1..Len(sorted) : RowBefore(sorted[i], row)})
       IN SubSeq(sorted, 1, k) \o <<row>> \o SubSeq(sorted, k + 1, Len(sorted))

\* Thread.postSystemMessage: the body it logs for a notice.  A plain string is
\* logged as it is; for a content object the expression
\* (text.content + text.embed ? " <embed>" : "").trim() groups as
\* ((text.content + text.embed) ? " <embed>" : "").trim(), and the sum is a
\* non-empty string.
systemBody(text) ==
  IF text.isString THEN text.content ELSE "<embed>"

systemRow(msgId, text) ==
  [message_type |-> SYSTEM, user_id |-> Null, body |-> systemBody(text),
   is_anonymous |-> 0, dm_message_id |-> msgId, thread_message_id |-> msgId]

\* The notices of the engine.
ErrorNotice == [isString |-> TRUE, content |-> "Error while replying to user"]
CancelReplyNotice ==
  [isString |-> TRUE,
   content |-> "Cancelling scheduled closing of this thread due to new reply"]
CancelInboundNotice ==
  [isString |-> FALSE,
   content |-> "Thread that was scheduled to be closed got a new reply. Cancelling."]
ReminderNotice ==
  [isString |-> FALSE,
   content |-> "The thread was updated, use !close cancel if you would like to cancel."]
NoNotice == [isString |-> TRUE, content |-> ""]

\* ------------------------------------------------------------------ calls

\* A call of a Thread method.  self holds the properties of the Thread object
\* the method runs on (this.*), loaded when the call is made and never
\* refreshed; pc is the await the call is suspended at.
NoCall ==
  [op |-> "none", pc |-> "idle", self |-> Null, who |-> Null, flag |-> FALSE,
   time |-> Null, role |-> "", loc |-> Null, notice |-> NoNotice,
   exit |-> "none", didCancel |-> FALSE, spawned |-> FALSE, alertPc |-> "none",
   alerts |-> <<>>]

\* A call that has returned: its locals are gone; what is kept is how it ended.
Return(call) ==
  [NoCall EXCEPT !.op = call.op, !.pc = "done", !.exit = call.exit,
                 !.didCancel = call.didCancel, !.spawned = call.spawned,
                 !.alertPc = call.alertPc, !.alerts = call.alerts]

NewCall(op, pc) ==
  [NoCall EXCEPT !.op = op, !.pc = pc, !.self = Some(ThreadObject(thread))]

\* The calls with call c replaced; a call that reached its end has returned.
Put(c, call) ==
  [calls EXCEPT ![c] = IF call.pc = "done" THEN Return(call) ELSE call]

\* Calls are numbered in the order they are made.
IsNext(c) ==
  /\ calls[c].op = "none"
  /\ \A d \in CallIds : d < c => calls[d].op # "none"

This(c) == Val(calls[c].self)

Outbound == {"replyToUser", "sendCommandToUser"}

\* ---------------------------------------------------------------- platform

\* Mutant: the catch of "channel not found" swallows the error and closes nothing.
channelNotFound_NoClose(pending, now) == pending

\* Mutant: the close that is started is not silent, and finding the channel
\* gone in its turn starts another.
channelNotFound_Again(pending, now) ==
  pending (+) SetToBag({now \div 1000}) (+) SetToBag({now \div 1000})

\* Thread.postToThreadChannel, the catch of "channel not found" (10003):
\* this.close(bot.user, true) is started and not awaited.  It is silent and has
\* an author, so it runs straight to its update of the row, built at time now.
channelNotFound(pending, now) ==
  pending (+) SetToBag({FormatSec(now)})

\* Thread.postToThreadChannel(content): the message is delivered when the
\* channel exists; otherwise the thread is auto-closed and nothing is returned.
postToThreadChannel(msgId) ==
  IF channelExists
  THEN /\ channelMsgs' = channelMsgs \cup {msgId}
       /\ autoClose' = autoClose
  ELSE /\ channelMsgs' = channelMsgs
       /\ autoClose' = channelNotFound(autoClose, clock)

\* The close started by postToThreadChannel applies its update.  The channel it
\* would delete is the one that was not found, so it ends there.
autoClose_update ==
  \E at \in BagToSet(autoClose) :
    /\ thread' = closeUpdate(thread, authorOf(botUser), at)
    /\ autoClose' = autoClose (-) SetToBag({at})
    /\ UNCHANGED <<transcript, channelExists, channelMsgs, dms, clock, calls>>

\* ------------------------------------------------- Thread.postSystemMessage

\* postSystemMessage(text), first await: postToThreadChannel.  Every awaited
\* postSystemMessage of the engine is the last statement its caller runs.
postSystemMessage_post(c) ==
  /\ calls[c].pc = "sysPost"
  /\ postToThreadChannel(<<c, "notice">>)
  /\ calls' = Put(c, [calls[c] EXCEPT !.pc = IF channelExists THEN "sysLog" ELSE "done",
                            !.spawned = @ \/ ~channelExists])
  /\ UNCHANGED <<thread, transcript, channelExists, dms, clock>>

\* postSystemMessage(text), second await: addThreadMessageToDB.
postSystemMessage_log(c) ==
  /\ calls[c].pc = "sysLog"
  /\ transcript' = addThreadMessageToDB(transcript,
                     systemRow(<<c, "notice">>, calls[c].notice), clock)
  /\ calls' = Put(c, [calls[c] EXCEPT !.pc = "done"])
  /\ UNCHANGED <<thread, channelExists, channelMsgs, dms, clock, autoClose>>

\* --------------------------------- Thread.replyToUser, sendCommandToUser

\* Mutant: the catch of a failed DM does not return, and the relay goes on.
dmFailed_FallThrough(call) == [call EXCEPT !.pc = "post"]

\* The catch of a failed DM: await this.postSystemMessage(...); return.
dmFailed(call) ==
  [call EXCEPT !.pc = "sysPost", !.notice = ErrorNotice, !.exit = "dmFail"]

\* Mutant: the reply is posted to the relay channel before the DM is sent.
outbound_call_PostFirst(c, op) ==
  /\ IsNext(c)
  /\ \E moderator \in Moderators, isAnonymous \in BOOLEAN :
       calls' = Put(c, [NewCall(op, "post") EXCEPT !.who = Some(moderator),
                                                    !.flag = isAnonymous])
  /\ UNCHANGED <<thread, transcript, channelExists, channelMsgs, dms, clock, autoClose>>

\* The call: the names and contents are built, then the DM is sent.
outbound_call(c, op) ==
  /\ IsNext(c)
  /\ \E moderator \in Moderators, isAnonymous \in BOOLEAN :
       calls' = Put(c,
                   [NewCall(op, "dm") EXCEPT !.who = Some(moderator),
                                             !.flag = isAnonymous])
  /\ UNCHANGED <<thread, transcript, channelExists, channelMsgs, dms, clock, autoClose>>

\* "Send the reply DM": postToUser delivers the DM or throws.
outbound_postToUser(c) ==
  /\ calls[c].pc = "dm"
  /\ \E delivered \in BOOLEAN :
       IF delivered
       THEN /\ dms' = dms \cup {<<c, "dm">>}
            /\ calls' = Put(c, [calls[c] EXCEPT !.pc = "post"])
       ELSE /\ dms' = dms
            /\ calls' = Put(c, dmFailed(calls[c]))
  /\ UNCHANGED <<thread, transcript, channelExists, channelMsgs, clock, autoClose>>

\* Mutant: if (! threadMessage) return is missing, the reply is logged anyway.
outbound_postToThreadChannel_NoTest(c) ==
  /\ calls[c].pc = "post"
  /\ postToThreadChannel(<<c, "reply">>)
  /\ calls' = Put(c, [calls[c] EXCEPT !.pc = "log", !.spawned = ~channelExists])
  /\ UNCHANGED <<thread, transcript, channelExists, dms, clock>>

\* "Send the reply to the modmail thread"; if (! threadMessage) return.
outbound_postToThreadChannel(c) ==
  /\ calls[c].pc = "post"
  /\ postToThreadChannel(<<c, "reply">>)
  /\ calls' = IF channelExists
              THEN Put(c, [calls[c] EXCEPT !.pc = "log"])
              ELSE Put(c, [calls[c] EXCEPT !.pc = "done", !.exit = "chanGone",
                                 !.spawned = TRUE])
  /\ UNCHANGED <<thread, transcript, channelExists, dms, clock>>

\* "Add the message to the database", then if (this.scheduled_close_at).
outbound_addThreadMessageToDB(c) ==
  /\ calls[c].pc = "log"
  /\ transcript' = addThreadMessageToDB(transcript,
       [message_type |-> TO_USER, user_id |-> Some(Val(calls[c].who).id),
        body |-> "text", is_anonymous |-> (IF calls[c].flag THEN 1 ELSE 0),
        dm_message_id |-> <<c, "dm">>, thread_message_id |-> <<c, "reply">>],
       clock)
  /\ calls' = Put(c, [calls[c] EXCEPT !.exit = "ok",
                            !.pc = IF This(c).scheduled_close_at # Null
                                      THEN "cancel" ELSE "done"])
  /\ UNCHANGED <<thread, channelExists, channelMsgs, dms, clock, autoClose>>

\* await this.cancelScheduledClose(), then the notice of the cancellation.
outbound_cancelScheduledClose(c) ==
  /\ calls[c].pc = "cancel"
  /\ thread' = cancelScheduledCloseUpdate(thread)
  /\ calls' = Put(c, [calls[c] EXCEPT !.pc = "sysPost", !.didCancel = TRUE,
                            !.notice = CancelReplyNotice])
  /\ UNCHANGED <<transcript, channelExists, channelMsgs, dms, clock, autoClose>>

outbound_step(c) ==
  \/ outbound_postToUser(c)
  \/ outbound_postToThreadChannel(c)
  \/ outbound_addThreadMessageToDB(c)
  \/ outbound_cancelScheduledClose(c)
  \/ postSystemMessage_post(c)
  \/ postSystemMessage_log(c)

replyToUser(c) ==
  \/ outbound_call(c, "replyToUser")
  \/ calls[c].op = "replyToUser" /\ outbound_step(c)

sendCommandToUser(c) ==
  \/ outbound_call(c, "sendCommandToUser")
  \/ calls[c].op = "sendCommandToUser" /\ outbound_step(c)

\* ------------------------------------------------- Thread.receiveUserReply

\* Mutant: the comparison is dropped, an inbound message always cancels.
withinGuard_Always(closeAt, now) == TRUE

\* closedAt.diff(now) <= 30000
withinGuard(closeAt, now) == ParseMs(closeAt) - now <= GuardMs

\* this.alert_users.split(", ").filter(id => id !== this.scheduled_close_id)
alertIds(self) ==
  SelectSeq(Split(Val(self.alert_users), ", "),
            LAMBDA id : self.scheduled_close_id = Null
                        \/ id # Str(Val(self.scheduled_close_id)))

\* Mutant: the scheduler of the close is not filtered out.
alertMentions_KeepScheduler(self) ==
  LET arr == Split(Val(self.alert_users), ", ")
  IN Join([i \in 1..Len(arr) |->
             (IF i = 1 THEN <<>>
              ELSE IF i = Len(arr) THEN <<" and ">> ELSE <<", ">>)
               \o <<"<@">> \o arr[i] \o <<">">>], "")

\* .map((id, i, arr) => (i == 0 ? "" : (i == arr.length - 1 ? " and " : ", "))
\*                       + `<@${id}>`).join("")
alertMentions(self) ==
  LET arr == alertIds(self)
  IN Join([i \in 1..Len(arr) |->
             (IF i = 1 THEN <<>>
              ELSE IF i = Len(arr) THEN <<" and ">> ELSE <<", ">>)
               \o <<"<@">> \o arr[i] \o <<">">>], "")

\* `${alerts}, there is a new message from **${this.user_name}**!`
AlertNotice(alerts) ==
  [isString |-> TRUE,
   content |-> alerts \o <<", there is a new message from **", "user", "**!">>]

receiveUserReply_call(c) ==
  /\ IsNext(c)
  /\ calls' = Put(c, NewCall("receiveUserReply", "post"))
  /\ dms' = dms \cup {<<c, "msg">>}
  /\ UNCHANGED <<thread, transcript, channelExists, channelMsgs, clock, autoClose>>

\* Mutant: if (! threadMessage) is not tested, the message is logged anyway.
receiveUserReply_postToThreadChannel_NoTest(c) ==
  /\ calls[c].op = "receiveUserReply"
  /\ calls[c].pc = "post"
  /\ postToThreadChannel(<<c, "inbound">>)
  /\ calls' = Put(c, [calls[c] EXCEPT !.pc = "log", !.spawned = ~channelExists])
  /\ UNCHANGED <<thread, transcript, channelExists, dms, clock>>

\* const threadMessage = await this.postToThreadChannel(...)
receiveUserReply_postToThreadChannel(c) ==
  /\ calls[c].op = "receiveUserReply"
  /\ calls[c].pc = "post"
  /\ postToThreadChannel(<<c, "inbound">>)
  /\ calls' = IF channelExists
              THEN Put(c, [calls[c] EXCEPT !.pc = "log"])
              ELSE Put(c, [calls[c] EXCEPT !.pc = "notify", !.exit = "chanGone",
                                 !.spawned = TRUE])
  /\ UNCHANGED <<thread, transcript, channelExists, dms, clock>>

\* if (! threadMessage): the user is told that the thread was closed.
receiveUserReply_createMessage(c) ==
  /\ calls[c].op = "receiveUserReply"
  /\ calls[c].pc = "notify"
  /\ dms' = dms \cup {<<c, "closed">>}
  /\ calls' = Put(c, [calls[c] EXCEPT !.pc = "done"])
  /\ UNCHANGED <<thread, transcript, channelExists, channelMsgs, clock, autoClose>>

\* await this.addThreadMessageToDB(...), then the alerts (a postSystemMessage
\* that is not awaited) and the rule on a scheduled close.
receiveUserReply_addThreadMessageToDB(c) ==
  /\ calls[c].op = "receiveUserReply"
  /\ calls[c].pc = "log"
  /\ transcript' = addThreadMessageToDB(transcript,
       [message_type |-> FROM_USER, user_id |-> Some("user"),
        body |-> "text", is_anonymous |-> 0,
        dm_message_id |-> <<c, "msg">>, thread_message_id |-> <<c, "inbound">>],
       clock)
  /\ LET self == This(c)
         alerts == IF self.alert_users # Null /\ Val(self.alert_users) # <<>>
                   THEN alertMentions(self) ELSE <<>>
         alerting == Len(alerts) > 0
         next == IF self.scheduled_close_at = Null THEN "done"
                 ELSE IF withinGuard(Val(self.scheduled_close_at), clock)
                      THEN "cancel" ELSE "sysPost"
     IN calls' = Put(c, [calls[c] EXCEPT !.exit = "ok", !.pc = next,
                               !.notice = ReminderNotice,
                               !.alertPc = IF alerting THEN "post" ELSE "none",
                               !.alerts = alerts])
  /\ UNCHANGED <<thread, channelExists, channelMsgs, dms, clock, autoClose>>

\* await this.cancelScheduledClose(), then the notice of the cancellation.
receiveUserReply_cancelScheduledClose(c) ==
  /\ calls[c].op = "receiveUserReply"
  /\ calls[c].pc = "cancel"
  /\ thread' = cancelScheduledCloseUpdate(thread)
  /\ calls' = Put(c, [calls[c] EXCEPT !.pc = "sysPost", !.didCancel = TRUE,
                            !.notice = CancelInboundNotice])
  /\ UNCHANGED <<transcript, channelExists, channelMsgs, dms, clock, autoClose>>

\* The alert notice, first await of its postSystemMessage.
receiveUserReply_alert_post(c) ==
  /\ calls[c].alertPc = "post"
  /\ postToThreadChannel(<<c, "alert">>)
  /\ calls' = Put(c, [calls[c] EXCEPT !.alertPc = IF channelExists THEN "log" ELSE "none",
                            !.spawned = @ \/ ~channelExists])
  /\ UNCHANGED <<thread, transcript, channelExists, dms, clock>>

\* The alert notice, second await of its postSystemMessage.
receiveUserReply_alert_log(c) ==
  /\ calls[c].alertPc = "log"
  /\ transcript' = addThreadMessageToDB(transcript,
                     systemRow(<<c, "alert">>, AlertNotice(calls[c].alerts)), clock)
  /\ calls' = Put(c, [calls[c] EXCEPT !.alertPc = "none"])
  /\ UNCHANGED <<thread, channelExists, channelMsgs, dms, clock, autoClose>>

receiveUserReply(c) ==
  \/ receiveUserReply_call(c)
  \/ receiveUserReply_postToThreadChannel(c)
  \/ receiveUserReply_createMessage(c)
  \/ receiveUserReply_addThreadMessageToDB(c)
  \/ receiveUserReply_cancelScheduledClose(c)
  \/ calls[c].op = "receiveUserReply" /\ postSystemMessage_post(c)
  \/ calls[c].op = "receiveUserReply" /\ postSystemMessage_log(c)

receiveUserReply_alert(c) ==
  \/ receiveUserReply_alert_post(c)
  \/ receiveUserReply_alert_log(c)

\* ------------------------------------------------------------ Thread.close

\* The statements after the closing notice: the author read back when absent,
\* else the update, built now.
closeAfterNotice(call, now) ==
  IF call.who = Null
  THEN [call EXCEPT !.pc = "read"]
  ELSE [call EXCEPT !.pc = "update", !.who = Some(authorOf(Val(call.who))),
                    !.time = Some(FormatSec(now))]

close_call(c) ==
  /\ IsNext(c)
  /\ \E author \in {Null} \cup {Some(u) : u \in Users}, silent \in BOOLEAN :
       LET call == [NewCall("close", "notice") EXCEPT !.who = author,
                                                      !.flag = silent]
       IN calls' = Put(c,
                      IF silent THEN closeAfterNotice(call, clock) ELSE call)
  /\ UNCHANGED <<thread, transcript, channelExists, channelMsgs, dms, clock, autoClose>>

\* if (! silent) await this.postToThreadChannel("Closing thread...")
close_postToThreadChannel(c) ==
  /\ calls[c].op = "close"
  /\ calls[c].pc = "notice"
  /\ postToThreadChannel(<<c, "closing">>)
  /\ calls' = Put(c,
                 closeAfterNotice([calls[c] EXCEPT !.spawned = ~channelExists],
                                  clock))
  /\ UNCHANGED <<thread, transcript, channelExists, dms, clock>>

\* if (! author): the row is read back and the author rebuilt from it;
\* newThread.scheduled_close_name.split throws when the column is null.
close_read(c) ==
  /\ calls[c].op = "close"
  /\ calls[c].pc = "read"
  /\ calls' = IF thread.scheduled_close_name = Null
              THEN Put(c, [calls[c] EXCEPT !.pc = "done", !.exit = "error"])
              ELSE Put(c, [calls[c] EXCEPT !.pc = "update",
                                 !.who = Some(authorFromRow(thread)),
                                 !.time = Some(FormatSec(clock))])
  /\ UNCHANGED <<thread, transcript, channelExists, channelMsgs, dms, clock, autoClose>>

\* "Update DB status", then const channel = bot.getChannel(this.channel_id).
close_update(c) ==
  /\ calls[c].op = "close"
  /\ calls[c].pc = "update"
  /\ thread' = closeUpdate(thread, Val(calls[c].who), Val(calls[c].time))
  /\ calls' = Put(c, [calls[c] EXCEPT !.exit = "ok",
                            !.pc = IF channelExists THEN "delete" ELSE "done"])
  /\ UNCHANGED <<transcript, channelExists, channelMsgs, dms, clock, autoClose>>

\* channel.delete rejects: nothing catches it, close rejects with that error.
deleteFailed(call) == [call EXCEPT !.pc = "done", !.exit = "deleteError"]

\* await channel.delete("Thread closed"): the channel is deleted, or the
\* platform refuses (missing permission, channel already gone, outage).
close_delete(c) ==
  /\ calls[c].op = "close"
  /\ calls[c].pc = "delete"
  /\ \E deleted \in BOOLEAN :
       IF deleted /\ channelExists
       THEN /\ channelExists' = FALSE
            /\ calls' = Put(c, [calls[c] EXCEPT !.pc = "done"])
       ELSE /\ channelExists' = channelExists
            /\ calls' = Put(c, deleteFailed(calls[c]))
  /\ UNCHANGED <<thread, transcript, channelMsgs, dms, clock, autoClose>>

close(c) ==
  \/ close_call(c)
  \/ close_postToThreadChannel(c)
  \/ close_read(c)
  \/ close_update(c)
  \/ close_delete(c)

\* A close that has been called runs on when the call it awaits returns.
close_step(c) ==
  \/ close_postToThreadChannel(c)
  \/ close_read(c)
  \/ close_update(c)
  \/ close_delete(c)

\* ----------------------- scheduleClose, cancelScheduledClose, (un)suspend
\* Each is one update of the row and nothing else.

\* A close is scheduled one or two clock steps ahead.
CloseTimes == {FormatSec(clock + TickMs), FormatSec(clock + 2 * TickMs)}

scheduleClose(c) ==
  /\ IsNext(c)
  /\ \E time \in CloseTimes, user \in Users :
       /\ thread' = scheduleCloseUpdate(thread, time, user)
       /\ calls' = Put(c,
                      [NewCall("scheduleClose", "done") EXCEPT
                         !.who = Some(user), !.time = Some(time), !.exit = "ok"])
  /\ UNCHANGED <<transcript, channelExists, channelMsgs, dms, clock, autoClose>>

cancelScheduledClose(c) ==
  /\ IsNext(c)
  /\ thread' = cancelScheduledCloseUpdate(thread)
  /\ calls' = Put(c,
                 [NewCall("cancelScheduledClose", "done") EXCEPT !.exit = "ok"])
  /\ UNCHANGED <<transcript, channelExists, channelMsgs, dms, clock, autoClose>>

suspend(c) ==
  /\ IsNext(c)
  /\ thread' = suspendUpdate(thread)
  /\ calls' = Put(c, [NewCall("suspend", "done") EXCEPT !.exit = "ok"])
  /\ UNCHANGED <<transcript, channelExists, channelMsgs, dms, clock, autoClose>>

unsuspend(c) ==
  /\ IsNext(c)
  /\ thread' = unsuspendUpdate(thread)
  /\ calls' = Put(c, [NewCall("unsuspend", "done") EXCEPT !.exit = "ok"])
  /\ UNCHANGED <<transcript, channelExists, channelMsgs, dms, clock, autoClose>>

\* ------------- saveChatMessage, updateChatMessage, deleteChatMessage
\* Each is one statement on table thread_messages and nothing else.

\* A message an operator wrote in the relay channel is logged.
saveChatMessage(c) ==
  /\ IsNext(c)
  /\ \E author \in Moderators :
       transcript' = addThreadMessageToDB(transcript,
         [message_type |-> CHAT, user_id |-> Some(author.id), body |-> "text",
          is_anonymous |-> 0, dm_message_id |-> <<c, "chat">>,
          thread_message_id |-> <<c, "chat">>],
         clock)
  /\ calls' = Put(c, [NewCall("saveChatMessage", "done") EXCEPT !.exit = "ok"])
  /\ UNCHANGED <<thread, channelExists, channelMsgs, dms, clock, autoClose>>

\* The ids a message event can carry: those of the logged messages, or another.
MessageIds ==
  {transcript[i].dm_message_id : i \in 1..Len(transcript)} \cup {<<0, "other">>}

\* .where("dm_message_id", msg.id).update({body, thread_message_id})
updateChatMessageRows(rows, msgId, content, threadMessageId) ==
  [i \in 1..Len(rows) |->
     IF rows[i].dm_message_id = msgId
     THEN [rows[i] EXCEPT !.body = content, !.thread_message_id = threadMessageId]
     ELSE rows[i]]

updateChatMessage(c) ==
  /\ IsNext(c)
  /\ \E msgId \in MessageIds :
       transcript' = updateChatMessageRows(transcript, msgId, "edited", <<c, "edit">>)
  /\ calls' = Put(c, [NewCall("updateChatMessage", "done") EXCEPT !.exit = "ok"])
  /\ UNCHANGED <<thread, channelExists, channelMsgs, dms, clock, autoClose>>

\* .where("dm_message_id", messageId).delete()
deleteChatMessageRows(rows, messageId) ==
  SelectSeq(rows, LAMBDA row : row.dm_message_id # messageId)

deleteChatMessage(c) ==
  /\ IsNext(c)
  /\ \E messageId \in MessageIds :
       transcript' = deleteChatMessageRows(transcript, messageId)
  /\ calls' = Put(c, [NewCall("deleteChatMessage", "done") EXCEPT !.exit = "ok"])
  /\ UNCHANGED <<thread, channelExists, channelMsgs, dms, clock, autoClose>>

\* ------------------------------------------------------- store failures
\* A statement on the store rejects.  An awaited one rejects the call that
\* awaits it; one inside a promise nobody awaits rejects that promise only.

\* await this.addThreadMessageToDB(...) of receiveUserReply rejects.
receiveUserReply_addThreadMessageToDB_rejected(c) ==
  /\ calls[c].op = "receiveUserReply"
  /\ calls[c].pc = "log"
  /\ calls' = Put(c, [calls[c] EXCEPT !.pc = "done", !.exit = "storeError"])
  /\ UNCHANGED <<thread, transcript, channelExists, channelMsgs, dms, clock, autoClose>>

\* The insert of the alert notice rejects: this.postSystemMessage(...) was
\* called without await and without catch.
receiveUserReply_alert_log_rejected(c) ==
  /\ calls[c].alertPc = "log"
  /\ calls' = Put(c, [calls[c] EXCEPT !.alertPc = "rejected"])
  /\ UNCHANGED <<thread, transcript, channelExists, channelMsgs, dms, clock, autoClose>>

\* The update of the close started by postToThreadChannel rejects:
\* this.close(bot.user, true) was called without await and without catch.
autoClose_update_rejected ==
  \E at \in BagToSet(autoClose) :
    /\ autoClose' = autoClose (-) SetToBag({at})
    /\ UNCHANGED <<thread, transcript, channelExists, channelMsgs, dms, clock, calls>>

\* ------------------------------------------------------------ environment

\* Time passes.
tick ==
  /\ clock < MaxTicks * TickMs
  /\ clock' = clock + TickMs
  /\ UNCHANGED <<thread, transcript, channelExists, channelMsgs, dms, calls, autoClose>>

\* The relay channel is deleted on the platform by someone else.
channelDeleted ==
  /\ channelExists
  /\ channelExists' = FALSE
  /\ UNCHANGED <<thread, transcript, channelMsgs, dms, clock, calls, autoClose>>

\* ------------------------------------------------------ Thread.alertStatus

\* The new value of column alert_users, from the value read:
\*   alerts = (alerts.alert_users && alerts.alert_users.split(", ")) || []
\*   push when absent and status === true; splice when status === false
\*   alerts.length > 0 ? alerts.join(", ") : null
alertStatusValue(column, userId, status) ==
  LET alerts == IF column # Null /\ Val(column) # <<>>
                THEN Split(Val(column), ", ") ELSE <<>>
      has == \E i \in 1..Len(alerts) : alerts[i] = Str(userId)
      index == CHOOSE i \in 1..Len(alerts) : alerts[i] = Str(userId)
                 /\ \A j \in 1..(i - 1) : alerts[j] # Str(userId)
      after == IF ~has /\ status THEN Append(alerts, Str(userId))
               ELSE IF ~status /\ has
                    THEN SubSeq(alerts, 1, index - 1)
                           \o SubSeq(alerts, index + 1, Len(alerts))
                    ELSE alerts
  IN IF Len(after) > 0 THEN Some(Join(after, ", ")) ELSE Null

alertStatus_call(c) ==
  /\ IsNext(c)
  /\ \E userId \in UserIds, status \in BOOLEAN :
       calls' = Put(c, [NewCall("alertStatus", "read") EXCEPT
                          !.role = userId, !.flag = status])
  /\ UNCHANGED <<thread, transcript, channelExists, channelMsgs, dms, clock, autoClose>>

\* let alerts = await knex("threads")...select("alert_users").first()
alertStatus_select(c) ==
  /\ calls[c].op = "alertStatus"
  /\ calls[c].pc = "read"
  /\ calls' = Put(c, [calls[c] EXCEPT !.pc = "write",
                        !.loc = alertStatusValue(thread.alert_users,
                                                 calls[c].role, calls[c].flag)])
  /\ UNCHANGED <<thread, transcript, channelExists, channelMsgs, dms, clock, autoClose>>

\* await knex("threads")...update({alert_users: alerts})
alertStatus_update(c) ==
  /\ calls[c].op = "alertStatus"
  /\ calls[c].pc = "write"
  /\ thread' = [thread EXCEPT !.alert_users = calls[c].loc]
  /\ calls' = Put(c, [calls[c] EXCEPT !.pc = "done", !.exit = "ok"])
  /\ UNCHANGED <<transcript, channelExists, channelMsgs, dms, clock, autoClose>>

alertStatus(c) ==
  \/ alertStatus_call(c)
  \/ alertStatus_select(c)
  \/ alertStatus_update(c)

\* ------------------------------------------------------ staff role overrides

\* A JavaScript object with string values is the sequence of its <<key, value>>
\* pairs in insertion order; the text JSON.stringify gives is [json |-> pairs],
\* so that the text of the empty object, "{}", is not null.
JSONstringify(object) == [json |-> object]
JSONparse(text) == text.json

HasKey(object, key) == \E i \in 1..Len(object) : object[i][1] = key

\* object[key]: the value, or undefined
Get(object, key) ==
  IF HasKey(object, key)
  THEN Some((CHOOSE p \in {object[i] : i \in 1..Len(object)} : p[1] = key)[2])
  ELSE Null

\* object[key] = value
Set(object, key, value) ==
  IF HasKey(object, key)
  THEN [i \in 1..Len(object) |->
          IF object[i][1] = key THEN <<key, value>> ELSE object[i]]
  ELSE Append(object, <<key, value>>)

\* Mutant: the key is not deleted.
Delete_Nothing(object, key) == object

\* delete object[key]
Delete(object, key) == SelectSeq(object, LAMBDA p : p[1] # key)

\* Thread.getStaffRoleOverride(userId), on the Thread object self.
getStaffRoleOverride(self, userId) ==
  IF self.staff_role_overrides # Null
  THEN Get(JSONparse(Val(self.staff_role_overrides)), userId)
  ELSE Null

\* Thread.setStaffRoleOverride: the text written, from the column read.
setStaffRoleOverrideValue(column, userId, roleId) ==
  LET overrides == IF column # Null THEN JSONparse(Val(column)) ELSE <<>>
  IN Some(JSONstringify(Set(overrides, userId, roleId)))

setStaffRoleOverride_call(c) ==
  /\ IsNext(c)
  /\ \E userId \in UserIds, roleId \in RoleIds :
       calls' = Put(c, [NewCall("setStaffRoleOverride", "read") EXCEPT
                          !.who = Some(userId), !.role = roleId])
  /\ UNCHANGED <<thread, transcript, channelExists, channelMsgs, dms, clock, autoClose>>

\* let overrides = await knex("threads")...select("staff_role_overrides").first()
setStaffRoleOverride_select(c) ==
  /\ calls[c].op = "setStaffRoleOverride"
  /\ calls[c].pc = "read"
  /\ calls' = Put(c, [calls[c] EXCEPT !.pc = "write",
                        !.loc = setStaffRoleOverrideValue(
                                  thread.staff_role_overrides,
                                  Val(calls[c].who), calls[c].role)])
  /\ UNCHANGED <<thread, transcript, channelExists, channelMsgs, dms, clock, autoClose>>

\* await knex("threads")...update({staff_role_overrides: JSON.stringify(overrides)})
setStaffRoleOverride_update(c) ==
  /\ calls[c].op = "setStaffRoleOverride"
  /\ calls[c].pc = "write"
  /\ thread' = [thread EXCEPT !.staff_role_overrides = calls[c].loc]
  /\ calls' = Put(c, [calls[c] EXCEPT !.pc = "done", !.exit = "ok"])
  /\ UNCHANGED <<transcript, channelExists, channelMsgs, dms, clock, autoClose>>

setStaffRoleOverride(c) ==
  \/ setStaffRoleOverride_call(c)
  \/ setStaffRoleOverride_select(c)
  \/ setStaffRoleOverride_update(c)

\* Thread.deleteStaffRoleOverride: whether it writes, from the column read
\*   if (overrides.staff_role_overrides) { ... if (overrides[userId]) { ...
deleteStaffRoleOverrideWrites(column, userId) ==
  column # Null /\ HasKey(JSONparse(Val(column)), userId)

\* ... and the text it writes.
deleteStaffRoleOverrideValue(column, userId) ==
  Some(JSONstringify(Delete(JSONparse(Val(column)), userId)))

deleteStaffRoleOverride_call(c) ==
  /\ IsNext(c)
  /\ \E userId \in UserIds :
       calls' = Put(c, [NewCall("deleteStaffRoleOverride", "read") EXCEPT
                          !.who = Some(userId)])
  /\ UNCHANGED <<thread, transcript, channelExists, channelMsgs, dms, clock, autoClose>>

deleteStaffRoleOverride_select(c) ==
  /\ calls[c].op = "deleteStaffRoleOverride"
  /\ calls[c].pc = "read"
  /\ calls' =
       IF deleteStaffRoleOverrideWrites(thread.staff_role_overrides, Val(calls[c].who))
       THEN Put(c, [calls[c] EXCEPT !.pc = "write",
                      !.loc = deleteStaffRoleOverrideValue(
                                thread.staff_role_overrides, Val(calls[c].who))])
       ELSE Put(c, [calls[c] EXCEPT !.pc = "done", !.exit = "ok"])
  /\ UNCHANGED <<thread, transcript, channelExists, channelMsgs, dms, clock, autoClose>>

deleteStaffRoleOverride_update(c) ==
  /\ calls[c].op = "deleteStaffRoleOverride"
  /\ calls[c].pc = "write"
  /\ thread' = [thread EXCEPT !.staff_role_overrides = calls[c].loc]
  /\ calls' = Put(c, [calls[c] EXCEPT !.pc = "done", !.exit = "ok"])
  /\ UNCHANGED <<transcript, channelExists, channelMsgs, dms, clock, autoClose>>

deleteStaffRoleOverride(c) ==
  \/ deleteStaffRoleOverride_call(c)
  \/ deleteStaffRoleOverride_select(c)
  \/ deleteStaffRoleOverride_update(c)

\* ------------------------------------------------------------------- specs

\* An open thread with its relay channel, no message yet.
Init ==
  /\ thread = [status |-> OPEN, scheduled_close_at |-> Null,
               scheduled_close_id |-> Null, scheduled_close_name |-> Null,
               alert_users |-> Null, staff_role_overrides |-> Null]
  /\ transcript = <<>>
  /\ channelExists = TRUE
  /\ channelMsgs = {}
  /\ dms = {}
  /\ clock = 0
  /\ calls = [c \in CallIds |-> NoCall]
  /\ autoClose = EmptyBag

Environment ==
  \/ autoClose_update
  \/ tick
  \/ channelDeleted

\* Every operation of the engine.
Next ==
  \/ \E c \in CallIds : replyToUser(c)
  \/ \E c \in CallIds : sendCommandToUser(c)
  \/ \E c \in CallIds : receiveUserReply(c)
  \/ \E c \in CallIds : receiveUserReply_alert(c)
  \/ \E c \in CallIds : close(c)
  \/ \E c \in CallIds : scheduleClose(c)
  \/ \E c \in CallIds : cancelScheduledClose(c)
  \/ \E c \in CallIds : suspend(c)
  \/ \E c \in CallIds : unsuspend(c)
  \/ \E c \in CallIds : alertStatus(c)
  \/ \E c \in CallIds : setStaffRoleOverride(c)
  \/ \E c \in CallIds : deleteStaffRoleOverride(c)
  \/ \E c \in CallIds : saveChatMessage(c)
  \/ \E c \in CallIds : updateChatMessage(c)
  \/ \E c \in CallIds : deleteChatMessage(c)
  \/ Environment

Spec == Init /\ [][Next]_vars

\* The relays, and the scheduling of a close that they react to.
NextRelay ==
  \/ \E c \in CallIds : replyToUser(c)
  \/ \E c \in CallIds : sendCommandToUser(c)
  \/ \E c \in CallIds : receiveUserReply(c)
  \/ \E c \in CallIds : scheduleClose(c)
  \/ \E c \in CallIds : cancelScheduledClose(c)
  \/ Environment

SpecRelay == Init /\ [][NextRelay]_vars

\* The life cycle of the thread.
NextLifecycle ==
  \/ \E c \in CallIds : close(c)
  \/ \E c \in CallIds : scheduleClose(c)
  \/ \E c \in CallIds : cancelScheduledClose(c)
  \/ \E c \in CallIds : suspend(c)
  \/ \E c \in CallIds : unsuspend(c)
  \/ Environment

SpecLifecycle == Init /\ [][NextLifecycle]_vars

\* The watchers and the role overrides of the thread.
NextOverrides ==
  \/ \E c \in CallIds : alertStatus(c)
  \/ \E c \in CallIds : setStaffRoleOverride(c)
  \/ \E c \in CallIds : deleteStaffRoleOverride(c)

SpecOverrides == Init /\ [][NextOverrides]_vars

\* A thread that has watchers, as alertStatus calls leave them, and may have a
\* close scheduled by one of them or by someone else, inside or outside the
\* guard window.
WatcherLists == {<<>>, <<"m1">>, <<"m3">>, <<"m1", "m2">>, <<"m2", "m1">>,
                 <<"m1", "m2", "m3">>, <<"m3", "m2", "m1">>,
                 <<"m3", "m1", "m4", "m2">>}

InitAlerts ==
  /\ \E watchers \in WatcherLists, scheduled \in BOOLEAN, user \in Users,
        time \in {FormatSec(TickMs), FormatSec(2 * TickMs)} :
       LET row == [status |-> OPEN, scheduled_close_at |-> Null,
                   scheduled_close_id |-> Null, scheduled_close_name |-> Null,
                   alert_users |->
                     IF watchers = <<>> THEN Null
                     ELSE Some(Join([i \in 1..Len(watchers) |-> Str(watchers[i])],
                                    ", ")),
                   staff_role_overrides |-> Null]
       IN thread = IF scheduled THEN scheduleCloseUpdate(row, time, user) ELSE row
  /\ transcript = <<>>
  /\ channelExists = TRUE
  /\ channelMsgs = {}
  /\ dms = {}
  /\ clock = 0
  /\ calls = [c \in CallIds |-> NoCall]
  /\ autoClose = EmptyBag

\* A thread with or without watchers, role overrides and a scheduled close.
InitClose ==
  /\ \E watched \in BOOLEAN, scheduled \in BOOLEAN, user \in Users :
       LET row == [status |-> OPEN, scheduled_close_at |-> Null,
                   scheduled_close_id |-> Null, scheduled_close_name |-> Null,
                   alert_users |->
                     IF watched THEN Some(<<"m1", ", ", "m2">>) ELSE Null,
                   staff_role_overrides |->
                     IF watched THEN Some(JSONstringify(<<<<"m1", "r1">>>>))
                     ELSE Null]
       IN thread = IF scheduled
                   THEN scheduleCloseUpdate(row, FormatSec(TickMs), user)
                   ELSE row
  /\ transcript = <<>>
  /\ channelExists = TRUE
  /\ channelMsgs = {}
  /\ dms = {}
  /\ clock = 0
  /\ calls = [c \in CallIds |-> NoCall]
  /\ autoClose = EmptyBag

\* Closes, by an operator or by the timer of a scheduled close, and the
\* cancellation of a scheduled close.
NextClose ==
  \/ \E c \in 1..MaxCloses : close(c)
  \/ \E c \in 1..MaxCloses : cancelScheduledClose(c)
  \/ autoClose_update
  \/ channelDeleted

SpecClose == InitClose /\ [][NextClose]_vars

\* The writers of the three columns of a scheduled close.
NextSchedule ==
  \/ \E c \in CallIds : close(c)
  \/ \E c \in CallIds : scheduleClose(c)
  \/ \E c \in CallIds : cancelScheduledClose(c)
  \/ autoClose_update
  \/ channelDeleted

SpecSchedule == Init /\ [][NextSchedule]_vars

\* close, and the writers of the watchers and of the overrides.
NextClosedWrites ==
  \/ \E c \in CallIds : close(c)
  \/ \E c \in CallIds : alertStatus(c)
  \/ \E c \in CallIds : setStaffRoleOverride(c)
  \/ autoClose_update
  \/ channelDeleted

SpecClosedWrites == Init /\ [][NextClosedWrites]_vars

\* The writers of the transcript.
NextTranscript ==
  \/ \E c \in CallIds : receiveUserReply(c)
  \/ \E c \in CallIds : replyToUser(c)
  \/ \E c \in CallIds : saveChatMessage(c)
  \/ \E c \in CallIds : updateChatMessage(c)
  \/ \E c \in CallIds : deleteChatMessage(c)
  \/ \E c \in CallIds : scheduleClose(c)
  \/ Environment

SpecTranscript == Init /\ [][NextTranscript]_vars

\* Closes whose platform and store calls all return: a call that awaits runs
\* on, and so does the close postToThreadChannel has started.
NextCloseFair ==
  \/ \E c \in 1..MaxClosers : close(c)
  \/ autoClose_update
  \/ channelDeleted

SpecCloseFair ==
  /\ InitClose /\ [][NextCloseFair]_vars
  /\ \A c \in 1..MaxClosers : WF_vars(close_step(c))
  /\ WF_vars(autoClose_update)

\* Inbound messages on a thread with watchers, with a store that can fail.
NextFailures ==
  \/ \E c \in 1..MaxInbound : receiveUserReply(c)
  \/ \E c \in 1..MaxInbound : receiveUserReply_alert(c)
  \/ \E c \in 1..MaxInbound : receiveUserReply_addThreadMessageToDB_rejected(c)
  \/ \E c \in 1..MaxInbound : receiveUserReply_alert_log_rejected(c)
  \/ autoClose_update
  \/ autoClose_update_rejected
  \/ channelDeleted

SpecFailures == InitAlerts /\ [][NextFailures]_vars

\* Inbound messages on a thread with watchers.
NextAlerts ==
  \/ \E c \in 1..MaxInbound : receiveUserReply(c)
  \/ \E c \in 1..MaxInbound : receiveUserReply_alert(c)
  \/ autoClose_update
  \/ channelDeleted

SpecAlerts == InitAlerts /\ [][NextAlerts]_vars

\* ------------------------------------------------------------------ claims

\* The call that a transcript row or a message belongs to.
RowsOf(c) == {i \in 1..Len(transcript) : transcript[i].thread_message_id[1] = c}

\* Call c has moved in this step.
StepBy(c) == calls'[c] # calls[c]

\* The DM send of outbound relay c has failed: the call is past postToUser and no
\* DM of it was delivered.
DmFailed(c) ==
  calls[c].op \in Outbound /\ calls[c].pc # "dm" /\ <<c, "dm">> \notin dms

\* C1, as claimed: when the DM of an outbound relay failed, that call has sent
\* nothing to the relay channel and has written no transcript row.
C1_Claimed ==
  \A c \in CallIds :
    DmFailed(c)
      => /\ \A m \in channelMsgs : m[1] # c
         /\ RowsOf(c) = {}

\* C1, amended: when the DM of an outbound relay failed, the reply is not posted
\* to the relay channel and no ToUser row is written; the call's only message in
\* the relay channel is the notice of the error, and its only transcript row is
\* the System row logging that notice, written once the notice has been posted.
C1_DmFailureOnlyNotice ==
  \A c \in CallIds :
    DmFailed(c)
      => /\ calls[c].exit = "dmFail"
         /\ \A m \in channelMsgs : m[1] = c => m = <<c, "notice">>
         /\ \A i \in RowsOf(c) :
              /\ transcript[i].message_type = SYSTEM
              /\ transcript[i].body = ErrorNotice.content
              /\ transcript[i].thread_message_id = <<c, "notice">>
              /\ <<c, "notice">> \in channelMsgs
         /\ Cardinality(RowsOf(c)) <= 1
         /\ (calls[c].pc = "done" /\ <<c, "notice">> \in channelMsgs
               => Cardinality(RowsOf(c)) = 1)

\* An outbound relay whose DM failed has returned, its notice posted and logged.
C1_Witness ==
  \E c \in CallIds :
    /\ DmFailed(c) /\ calls[c].pc = "done"
    /\ <<c, "notice">> \in channelMsgs
    /\ RowsOf(c) # {}

\* C2: when the relay-channel send of an outbound relay whose DM was delivered
\* fails with channel-not-found, the relay writes no transcript row, the DM stays
\* delivered, and the thread is closed: the close it started is pending or the
\* persisted status is Closed.
C2_ChannelGoneCloses ==
  \A c \in CallIds :
    calls[c].op \in Outbound /\ calls[c].exit = "chanGone"
      => /\ <<c, "dm">> \in dms
         /\ RowsOf(c) = {}
         /\ \A m \in channelMsgs : m[1] # c
         /\ calls[c].pc = "done"
         /\ autoClose # EmptyBag \/ thread.status = CLOSED

\* An outbound relay has ended on channel-not-found, and the thread is Closed.
C2_Witness ==
  \E c \in CallIds :
    /\ calls[c].op \in Outbound /\ calls[c].exit = "chanGone"
    /\ <<c, "dm">> \in dms
    /\ autoClose = EmptyBag /\ thread.status = CLOSED

\* C3: the reply of an outbound relay is in the relay channel only if its DM has
\* been delivered, and a relay is at its relay-channel send or beyond only after
\* its DM send has succeeded.
C3_DmBeforeRelay ==
  \A c \in CallIds :
    /\ <<c, "reply">> \in channelMsgs => <<c, "dm">> \in dms
    /\ calls[c].op \in Outbound /\ calls[c].pc \in {"post", "log", "cancel"}
         => <<c, "dm">> \in dms
    /\ calls[c].op \in Outbound /\ calls[c].exit \in {"ok", "chanGone"}
         => <<c, "dm">> \in dms

\* A replyToUser and a sendCommandToUser have both posted their reply.
C3_Witness ==
  \E c, d \in CallIds :
    /\ calls[c].op = "replyToUser" /\ <<c, "reply">> \in channelMsgs
    /\ calls[d].op = "sendCommandToUser" /\ <<d, "reply">> \in channelMsgs

\* C4, as claimed: the ToUser and FromUser rows read back by getThreadMessages
\* are in the order in which their calls were made (calls are numbered in that
\* order).
C4_Claimed ==
  LET rows == getThreadMessages(transcript)
  IN \A i, j \in 1..Len(rows) :
       /\ i < j
       /\ rows[i].message_type \in {TO_USER, FROM_USER}
       /\ rows[j].message_type \in {TO_USER, FROM_USER}
       => rows[i].thread_message_id[1] < rows[j].thread_message_id[1]

\* C5, as claimed: once the persisted status is Closed it stays Closed.
C5_Claimed == [][thread.status = CLOSED => thread'.status = CLOSED]_vars

\* C6, as claimed: a close called on a thread that is already Closed changes
\* nothing in the row, posts no "Closing thread..." notice and raises no error.
C6_Claimed ==
  [][\A c \in CallIds :
       /\ calls[c].op = "close" /\ calls[c].pc # "done"
       /\ This(c).status = CLOSED
       /\ StepBy(c)
       => /\ thread' = thread
          /\ channelMsgs' = channelMsgs
          /\ calls'[c].exit # "error"]_vars

\* The three columns of a scheduled close.
ScheduledClose(row) ==
  <<row.scheduled_close_at, row.scheduled_close_id, row.scheduled_close_name>>

\* The close the Thread object of call c was loaded with is pending and at most
\* (more than) thirty seconds after now.
Pending(c) == calls[c].self # Null /\ This(c).scheduled_close_at # Null
Near(c) == Pending(c) /\ Val(This(c).scheduled_close_at) * 1000 - clock <= 30 * 1000
Far(c) == Pending(c) /\ Val(This(c).scheduled_close_at) * 1000 - clock > 30 * 1000

\* C7: an inbound or outbound relay that has sent and logged its message on a
\* thread loaded with a scheduled close at most thirty seconds away goes on to
\* cancel it, and its cancellation leaves scheduled_close_at, scheduled_close_id
\* and scheduled_close_name all null in the row.
C7_NearCloseCancelled ==
  [][\A c \in CallIds :
       /\ calls[c].op \in {"receiveUserReply", "replyToUser"}
            /\ calls[c].pc = "log" /\ StepBy(c) /\ Near(c)
          => calls'[c].pc = "cancel" /\ calls'[c].exit = "ok"
       /\ calls[c].op \in {"receiveUserReply", "replyToUser"}
            /\ calls[c].pc = "cancel" /\ StepBy(c)
          => /\ ScheduledClose(thread') = <<Null, Null, Null>>
             /\ calls'[c].didCancel]_vars

\* An inbound message and a reply have each cancelled a scheduled close.
C7_Witness ==
  /\ ScheduledClose(thread) = <<Null, Null, Null>>
  /\ \E c \in CallIds :
       /\ calls[c].op = "receiveUserReply"
       /\ calls[c].didCancel /\ calls[c].pc = "done"

\* C8, as claimed: a relay, inbound or outbound, on a thread loaded with a
\* scheduled close more than thirty seconds away leaves the three columns as they
\* are and posts the reminder.
C8_Claimed ==
  [][\A c \in CallIds :
       /\ calls[c].op \in Outbound \cup {"receiveUserReply"}
       /\ StepBy(c) /\ Far(c)
       => /\ ScheduledClose(thread') = ScheduledClose(thread)
          /\ calls[c].pc = "log"
               => calls'[c].pc = "sysPost" /\ calls'[c].notice = ReminderNotice]_vars

\* C8, amended: on a thread loaded with a scheduled close more than thirty
\* seconds away, receiveUserReply leaves the row as it is and goes on to post the
\* reminder, which is delivered when the relay channel exists; replyToUser and
\* sendCommandToUser cancel the scheduled close however far away it is, and go
\* on to post the notice of the cancellation.
C8_FarCloseReminded ==
  [][\A c \in CallIds :
       /\ calls[c].op = "receiveUserReply" /\ StepBy(c) /\ Far(c)
          => /\ thread' = thread
             /\ ~calls'[c].didCancel
             /\ calls[c].pc = "log"
                  => calls'[c].pc = "sysPost" /\ calls'[c].notice = ReminderNotice
             /\ calls[c].pc = "sysPost" /\ channelExists
                  => /\ calls[c].notice = ReminderNotice
                     /\ <<c, "notice">> \in channelMsgs'
       /\ calls[c].op \in Outbound /\ StepBy(c) /\ Pending(c)
          => /\ calls[c].pc = "log" => calls'[c].pc = "cancel"
             /\ calls[c].pc = "cancel"
                  => /\ ScheduledClose(thread') = <<Null, Null, Null>>
                     /\ calls'[c].notice = CancelReplyNotice
                     /\ calls'[c].pc = "sysPost"]_vars

\* The reminder of an inbound message is in the relay channel, the scheduled
\* close, more than thirty seconds away, still pending.
C8_Witness ==
  \E c \in CallIds :
    /\ calls[c].op = "receiveUserReply" /\ calls[c].pc = "sysLog"
    /\ calls[c].notice = ReminderNotice
    /\ Far(c)
    /\ <<c, "notice">> \in channelMsgs
    /\ ScheduledClose(thread) = ScheduledClose(This(c))

\* The call's operator and role.
Operator(c) == Val(calls[c].who)

\* C9, as claimed: when setStaffRoleOverride(u, r) completes, getStaffRoleOverride(u)
\* returns r, and when deleteStaffRoleOverride(u) completes it returns none, on
\* the Thread object that made the call and on one loaded then.
C9_Claimed ==
  [][\A c \in CallIds :
       /\ calls[c].op = "setStaffRoleOverride" /\ calls'[c].pc = "done" /\ StepBy(c)
          => /\ getStaffRoleOverride(ThreadObject(thread'), Operator(c))
                  = Some(calls[c].role)
             /\ getStaffRoleOverride(This(c), Operator(c)) = Some(calls[c].role)
       /\ calls[c].op = "deleteStaffRoleOverride" /\ calls'[c].pc = "done" /\ StepBy(c)
          => /\ getStaffRoleOverride(ThreadObject(thread'), Operator(c)) = Null
             /\ getStaffRoleOverride(This(c), Operator(c)) = Null]_vars

\* C9, amended: when setStaffRoleOverride(u, r) completes, getStaffRoleOverride(u)
\* on a Thread object loaded at that moment returns r, and when
\* deleteStaffRoleOverride(u) completes it returns none.
C9_RoundTripOnLoad ==
  [][\A c \in CallIds :
       /\ calls[c].op = "setStaffRoleOverride" /\ calls'[c].pc = "done" /\ StepBy(c)
          => getStaffRoleOverride(ThreadObject(thread'), Operator(c))
               = Some(calls[c].role)
       /\ calls[c].op = "deleteStaffRoleOverride" /\ calls'[c].pc = "done" /\ StepBy(c)
          => getStaffRoleOverride(ThreadObject(thread'), Operator(c)) = Null]_vars

\* An override has been set and deleted again: the column holds the empty object.
C9_Witness ==
  /\ thread.staff_role_overrides = Some(JSONstringify(<<>>))
  /\ \E c, d \in CallIds :
       /\ calls[c].op = "setStaffRoleOverride" /\ calls[c].pc = "done"
       /\ calls[d].op = "deleteStaffRoleOverride" /\ calls[d].pc = "done"

\* The watchers of the row.
Watchers(row) ==
  IF row.alert_users = Null THEN {}
  ELSE LET ids == Split(Val(row.alert_users), ", ")
       IN {ids[i] : i \in 1..Len(ids)}

\* C10, as claimed: an update of the watchers or of the overrides for one
\* operator takes effect without undoing what is persisted for another operator.
C10_Claimed ==
  [][\A c \in CallIds :
       /\ calls[c].op = "alertStatus" /\ calls[c].pc = "write" /\ StepBy(c)
          => \A v \in UserIds \ {calls[c].role} :
               Str(v) \in Watchers(thread) <=> Str(v) \in Watchers(thread')
       /\ calls[c].op \in {"setStaffRoleOverride", "deleteStaffRoleOverride"}
            /\ calls[c].pc = "write" /\ StepBy(c)
          => \A v \in UserIds \ {Operator(c)} :
               getStaffRoleOverride(thread, v) = getStaffRoleOverride(thread', v)]_vars


\* The reference mention list of a sequence of ids: "<@a>", "<@a> and <@b>",
\* "<@a>, <@b> and <@c>".
Mention(id) == <<"<@", id, ">">>
RECURSIVE Commas(_)
Commas(ids) ==
  IF Len(ids) = 1 THEN Mention(ids[1])
  ELSE Mention(ids[1]) \o <<", ">> \o Commas(Tail(ids))
ReferenceJoin(ids) ==
  IF ids = <<>> THEN <<>>
  ELSE IF Len(ids) = 1 THEN Mention(ids[1])
  ELSE Commas(SubSeq(ids, 1, Len(ids) - 1)) \o <<" and ">> \o Mention(ids[Len(ids)])

\* The watchers of a row in their order, the scheduler of its close left out.
WatchersButScheduler(row) ==
  IF row.alert_users = Null THEN <<>>
  ELSE LET ids == Split(Val(row.alert_users), ", ")
       IN SelectSeq([i \in 1..Len(ids) |-> ids[i][1]],
                    LAMBDA id : Some(id) # row.scheduled_close_id)

\* C11: the mention list receiveUserReply builds once its message is logged is
\* the reference join of the watchers the Thread object was loaded with, the
\* scheduler of its close left out; the alert notice is started exactly when
\* that list is not empty, and an alert notice in the relay channel carries it.
C11_AlertMentions ==
  [][\A c \in CallIds :
       /\ calls[c].op = "receiveUserReply" /\ calls[c].pc = "log" /\ StepBy(c)
          => /\ calls'[c].alerts = ReferenceJoin(WatchersButScheduler(This(c)))
             /\ calls'[c].alertPc = "post"
                  <=> WatchersButScheduler(This(c)) # <<>>
       /\ calls[c].alertPc = "log" /\ calls'[c].alertPc = "none"
          => /\ calls[c].alerts # <<>>
             /\ transcript'[Len(transcript')].body
                  = calls[c].alerts \o <<", there is a new message from **", "user", "**!">>
    ]_vars

\* An alert is in the relay channel for a thread whose close was scheduled by
\* one of its four watchers: it mentions the other three.
C11_Witness ==
  \E c \in CallIds :
    /\ <<c, "alert">> \in channelMsgs
    /\ thread.scheduled_close_id = Some("m1")
    /\ Watchers(thread) = {Str("m1"), Str("m2"), Str("m3"), Str("m4")}
    /\ calls[c].alerts = <<"<@", "m3", ">", ", ", "<@", "m4", ">", " and ",
                           "<@", "m2", ">">>


\* The FromUser rows of inbound message c.
FromUserRows(c) ==
  {i \in 1..Len(transcript) : /\ transcript[i].message_type = FROM_USER
                              /\ transcript[i].dm_message_id = <<c, "msg">>}

\* C12: a receiveUserReply whose relay-channel send succeeded has, once past
\* its insert, exactly one FromUser row in the transcript, and never more; one
\* whose send found the channel gone has written no transcript row at all, and
\* has told the user that the thread was closed by the time it returns.
C12_OneFromUserRow ==
  \A c \in CallIds :
    calls[c].op = "receiveUserReply" /\ calls[c].pc # "post"
      => /\ Cardinality(FromUserRows(c)) <= 1
         /\ <<c, "inbound">> \in channelMsgs /\ calls[c].pc # "log"
              => /\ Cardinality(FromUserRows(c)) = 1
                 /\ calls[c].exit = "ok"
         /\ <<c, "inbound">> \notin channelMsgs
              => /\ RowsOf(c) = {}
                 /\ calls[c].pc = "done" => <<c, "closed">> \in dms

\* One inbound message was relayed and logged, and a later one found the relay
\* channel gone.
C12_Witness ==
  \E c, d \in CallIds :
    /\ calls[c].op = "receiveUserReply" /\ calls[c].pc = "done"
    /\ <<c, "inbound">> \in channelMsgs /\ Cardinality(FromUserRows(c)) = 1
    /\ calls[d].op = "receiveUserReply" /\ calls[d].pc = "done"
    /\ <<d, "inbound">> \notin channelMsgs /\ <<d, "closed">> \in dms


\* C13: the author close rebuilds when no closer is given has the id and the
\* name of the scheduled close in the row read; a given closer is the author;
\* and the update of close leaves the row Closed, without watchers and without
\* overrides, its scheduled_close_id and scheduled_close_name those of the
\* author, stamped with a time.
C13_CloseStamps ==
  [][\A c \in CallIds :
       /\ calls[c].op = "close" /\ calls[c].pc = "read" /\ calls'[c].pc = "update"
          => /\ Val(calls'[c].who).id = thread.scheduled_close_id
             /\ Val(calls'[c].who).username \o <<"#">> \o Val(calls'[c].who).discriminator
                  = Val(thread.scheduled_close_name)
       /\ calls[c].op = "close" /\ calls[c].pc = "notice" /\ calls[c].who # Null
            /\ StepBy(c)
          => /\ calls'[c].pc = "update"
             /\ Val(calls'[c].who).id = Some(Val(calls[c].who).id)
             /\ Val(calls'[c].who).username = Val(calls[c].who).username
             /\ Val(calls'[c].who).discriminator = Val(calls[c].who).discriminator
       /\ calls[c].op = "close" /\ calls[c].pc = "update" /\ StepBy(c)
          => /\ thread'.status = CLOSED
             /\ thread'.alert_users = Null
             /\ thread'.staff_role_overrides = Null
             /\ thread'.scheduled_close_at # Null
             /\ thread'.scheduled_close_id = Val(calls[c].who).id
             /\ thread'.scheduled_close_name
                  = Some(Val(calls[c].who).username \o <<"#">>
                           \o Val(calls[c].who).discriminator)
             /\ calls'[c].exit = "ok"]_vars

\* A close without a closer, on a thread with watchers and overrides whose
\* close bob had scheduled, has updated the row: Closed, by bob.
C13_Witness ==
  \E c \in CallIds :
    /\ calls[c].op = "close" /\ calls[c].pc = "delete" /\ calls[c].exit = "ok"
    /\ This(c).alert_users # Null /\ This(c).staff_role_overrides # Null
    /\ This(c).scheduled_close_id = Some("m2")
    /\ \A d \in CallIds \ {c} : calls[d].op = "none"
    /\ thread.status = CLOSED
    /\ thread.alert_users = Null /\ thread.staff_role_overrides = Null
    /\ thread.scheduled_close_id = Some("m2")
    /\ thread.scheduled_close_name = Some(<<"b", "#", "ob", "#", "0002">>)

\* C14, as claimed: close never fails with the error of a failed delete of the
\* relay channel (and the row is Closed once close has got that far).
C14_Claimed ==
  \A c \in CallIds :
    calls[c].op = "close" /\ calls[c].pc = "done"
      => calls[c].exit # "deleteError"

\* C15, as claimed: a close without a closer, made on a Thread object loaded
\* with a scheduled close that has been cancelled since, changes nothing in the
\* row, sends no closing notice and raises no error.
C15_Claimed ==
  [][\A c \in CallIds :
       /\ calls[c].op = "close" /\ calls[c].who = Null
       /\ calls[c].pc \in {"notice", "read"}
       /\ This(c).scheduled_close_at # Null
       /\ \E d \in CallIds : calls[d].op = "cancelScheduledClose"
       /\ ScheduledClose(thread) = <<Null, Null, Null>>
       /\ StepBy(c)
       => /\ thread' = thread
          /\ channelMsgs' = channelMsgs
          /\ calls'[c].exit # "error"]_vars


\* C16, as claimed: every row of the transcript is still there after a step,
\* unchanged, or, if it is a Chat row, changed in its body and
\* thread_message_id only.
C16_Claimed ==
  [][\A i \in 1..Len(transcript) :
       \E j \in 1..Len(transcript') :
         /\ transcript'[j].id = transcript[i].id
         /\ \/ transcript'[j] = transcript[i]
            \/ /\ transcript[i].message_type = CHAT
               /\ transcript'[j] =
                    [transcript[i] EXCEPT
                       !.body = transcript'[j].body,
                       !.thread_message_id = transcript'[j].thread_message_id]]_vars


\* C17, as claimed: when a statement on the store rejects, the call it runs in
\* ends with that error: the insert of the message of receiveUserReply, the
\* insert of its alert notice, the update of the close that postToThreadChannel
\* starts when the channel is not found.
C17_Claimed ==
  [][/\ \A c \in CallIds :
          /\ calls[c].op = "receiveUserReply" /\ calls[c].pc = "log"
               /\ calls'[c].pc = "done" /\ transcript' = transcript
             => calls'[c].exit = "storeError"
          /\ calls[c].alertPc = "log" /\ calls'[c].alertPc = "rejected"
             => calls'[c].exit = "storeError"
     /\ autoClose' # autoClose /\ BagCardinality(autoClose') < BagCardinality(autoClose)
          /\ thread.status # CLOSED /\ thread' = thread
        => \E c \in CallIds : StepBy(c) /\ calls'[c].exit = "storeError"]_vars


\* The three columns of a scheduled close are all null or all set.
AllOrNone(row) ==
  \/ /\ row.scheduled_close_at = Null
     /\ row.scheduled_close_id = Null
     /\ row.scheduled_close_name = Null
  \/ /\ row.scheduled_close_at # Null
     /\ row.scheduled_close_id # Null
     /\ row.scheduled_close_name # Null

\* C18: under every interleaving of scheduleClose, cancelScheduledClose and
\* close, scheduled_close_at, scheduled_close_id and
\* scheduled_close_name of the row are all null or all set, and the update
\* of cancelScheduledClose leaves all three null.
C18_AllOrNone ==
  /\ AllOrNone(thread)
  /\ [][/\ AllOrNone(thread')
        /\ \A c \in CallIds :
             calls'[c].op = "cancelScheduledClose" /\ StepBy(c)
               => /\ thread'.scheduled_close_at = Null
                  /\ thread'.scheduled_close_id = Null
                  /\ thread'.scheduled_close_name = Null]_vars

\* A close was scheduled and then cancelled: the three columns are null again.
C18_Witness ==
  /\ calls[1].op = "scheduleClose"
  /\ calls[2].op = "cancelScheduledClose"
  /\ thread.scheduled_close_at = Null
  /\ thread.scheduled_close_id = Null
  /\ thread.scheduled_close_name = Null


\* C19, as claimed: alert_users is never the text of an empty list and
\* staff_role_overrides is never the text of an empty object.
C19_Claimed ==
  /\ thread.alert_users # Some(<<>>)
  /\ thread.staff_role_overrides # Some(JSONstringify(<<>>))


\* C20, as claimed: the System row postSystemMessage inserts for a notice has
\* the text of that notice as body (the string, or the content of a content
\* object), no author and is_anonymous = 0.
C20_Claimed ==
  [][\A c \in CallIds :
       calls[c].pc = "sysLog" /\ calls'[c].pc = "done"
         => LET row == transcript'[Len(transcript')]
            IN /\ Len(transcript') = Len(transcript) + 1
               /\ row.message_type = SYSTEM
               /\ row.thread_message_id = <<c, "notice">>
               /\ row.user_id = Null
               /\ row.is_anonymous = 0
               /\ row.body = calls[c].notice.content]_vars


\* C21: every ToUser and FromUser row written by replyToUser, sendCommandToUser
\* and receiveUserReply has as dm_message_id the id of a message in the user's
\* DM channel and as thread_message_id the id of a message delivered to the
\* relay channel; a relay whose DM send or relay-channel send failed has no
\* such row.
C21_RowsAreDelivered ==
  /\ \A i \in 1..Len(transcript) :
       transcript[i].message_type \in {TO_USER, FROM_USER}
         => /\ transcript[i].dm_message_id \in dms
            /\ transcript[i].thread_message_id \in channelMsgs
  /\ \A c \in CallIds :
       /\ calls[c].op \in Outbound
            /\ (<<c, "dm">> \notin dms \/ <<c, "reply">> \notin channelMsgs)
          => \A i \in 1..Len(transcript) :
               transcript[i].message_type = TO_USER
                 => transcript[i].dm_message_id # <<c, "dm">>
       /\ calls[c].op = "receiveUserReply" /\ <<c, "inbound">> \notin channelMsgs
          => FromUserRows(c) = {}

\* A reply and an inbound message have both been delivered on both sides and
\* logged.
C21_Witness ==
  \E c, d \in CallIds :
    /\ calls[c].op \in Outbound /\ calls[c].pc = "done"
    /\ \E i \in 1..Len(transcript) :
         /\ transcript[i].message_type = TO_USER
         /\ transcript[i].dm_message_id = <<c, "dm">>
         /\ transcript[i].thread_message_id = <<c, "reply">>
    /\ calls[d].op = "receiveUserReply" /\ calls[d].pc = "done"
    /\ Cardinality(FromUserRows(d)) = 1
    /\ {<<c, "dm">>, <<d, "msg">>} \subseteq dms
    /\ {<<c, "reply">>, <<d, "inbound">>} \subseteq channelMsgs


\* C22, as claimed: whenever the row is Closed, its alert_users and its
\* staff_role_overrides are null.
C22_Claimed ==
  thread.status = CLOSED
    => thread.alert_users = Null /\ thread.staff_role_overrides = Null


\* The ToUser and FromUser rows of a transcript, and the DMs the relays sent.
RelayRows(rows) ==
  {rows[i].id : i \in {k \in 1..Len(rows) :
                         rows[k].message_type \in {TO_USER, FROM_USER}}}
RelayDMs(messages) == {m \in messages : m[2] = "dm"}

\* C23, as claimed: while the row is Closed no ToUser or FromUser row is
\* appended and no relay sends a DM to the user.
C23_Claimed ==
  [][thread.status = CLOSED
       => /\ RelayRows(transcript') \subseteq RelayRows(transcript)
          /\ RelayDMs(dms') \subseteq RelayDMs(dms)]_vars


\* C24: when the platform and store calls return, every close that was called
\* returns and every close that postToThreadChannel started has run; a close
\* starts at most one further close, at its closing notice and only when the
\* channel is gone, and the close it starts starts none.
C24_CloseTerminates ==
  /\ [][/\ \A c \in CallIds :
             calls[c].op = "close" /\ StepBy(c)
               => /\ calls'[c].pc # "notice"
                  /\ BagCardinality(autoClose')
                       <= BagCardinality(autoClose)
                            + (IF calls[c].pc = "notice" /\ ~channelExists
                               THEN 1 ELSE 0)
        /\ (\A c \in CallIds : ~StepBy(c))
             => BagCardinality(autoClose') <= BagCardinality(autoClose)]_vars
  /\ \A c \in CallIds : (calls[c].op = "close") ~> (calls[c].pc = "done")
  /\ <>[](autoClose = EmptyBag)

\* A close that was not silent found the channel gone, the close it started has
\* updated the row, and it has returned.
C24_Witness ==
  \E c \in CallIds :
    /\ calls[c].op = "close" /\ calls[c].pc = "done" /\ calls[c].spawned
    /\ autoClose = EmptyBag
    /\ thread.status = CLOSED

====
